---- MODULE Spec2Model ----
(***************************************************************************)
(* The rollback controller (lambdas/auto_rollback.py) and the health       *)
(* prober (lambdas/health_check.py) of the self-healing CI/CD platform,    *)
(* as state machines over the orchestration platform they talk to.         *)
(*                                                                         *)
(* Python values are modelled as follows.  None is the empty sequence and  *)
(* a present value v is <<v>>; str values are TLA+ strings, built with \o  *)
(* the way the f-strings build them; a dict is a function from its keys.   *)
(* A raised exception is the outcome "raise" of the call that raised it,   *)
(* carrying str(e).                                                        *)
(***************************************************************************)
EXTENDS Integers, Sequences, FiniteSets, TLC

(***************************************************************************)
(* Bounds of the model.                                                    *)
(***************************************************************************)
\* Highest revision number the service starts at.
MaxRevision == 3
\* Number of controller invocations that may be in flight together.
MaxOverlap == 2
\* Number of controller invocations in one behaviour.
MaxInvocations == 3

Procs == 1..MaxOverlap

None == << >>
Some(v) == << v >>

Max(a, b) == IF a >= b THEN a ELSE b

(***************************************************************************)
(* JSON text.  json_dumps formats a dict, key by key in the given order;   *)
(* json_loads is its inverse over the documents of the model and raises    *)
(* (None) on any other text.                                               *)
(***************************************************************************)
AlarmKeys == <<"AlarmName", "NewStateValue", "NewStateReason", "StateChangeTime">>
RequiredKeys == {AlarmKeys[i] : i \in 1..Len(AlarmKeys)}

RECURSIVE JoinPairs(_, _, _)
JoinPairs(obj, keys, i) ==
    IF i > Len(keys) THEN ""
    ELSE IF keys[i] \in DOMAIN obj
         THEN LET rest == JoinPairs(obj, keys, i + 1)
                  pair == "\"" \o keys[i] \o "\": \"" \o obj[keys[i]] \o "\""
              IN  IF rest = "" THEN pair ELSE pair \o ", " \o rest
         ELSE JoinPairs(obj, keys, i + 1)

json_dumps(obj, keys) == "{" \o JoinPairs(obj, keys, 1) \o "}"

AlarmNames == {"HighErrorRate"}
AlarmStates == {"OK", "ALARM", "INSUFFICIENT_DATA"}

AlarmPayload(name, state) ==
    [k \in RequiredKeys |->
        CASE k = "AlarmName" -> name
          [] k = "NewStateValue" -> state
          [] k = "NewStateReason" -> "breach"
          [] k = "StateChangeTime" -> "2024-01-01T00:00:00Z"]

Restrict(f, K) == [k \in K |-> f[k]]

\* A complete payload of another alarm, with another reason and time.
OtherAlarm ==
    [k \in RequiredKeys |->
        CASE k = "AlarmName" -> "HighLatency"
          [] k = "NewStateValue" -> "OK"
          [] k = "NewStateReason" -> "recovered"
          [] k = "StateChangeTime" -> "2024-02-02T12:00:00Z"]

\* The JSON objects a message may carry: complete alarm payloads, payloads
\* with one required field missing, and the empty object.
AlarmObjects ==
    {AlarmPayload(n, s) : n \in AlarmNames, s \in AlarmStates}
    \cup {OtherAlarm}
    \cup {Restrict(AlarmPayload("HighErrorRate", "ALARM"), RequiredKeys \ {k}) : k \in RequiredKeys}
    \cup {Restrict(AlarmPayload("HighErrorRate", "ALARM"), {})}

\* Message bodies: the serialised objects, and texts json.loads rejects.
NonJsonTexts == {"not json", ""}
MessageTexts == {json_dumps(o, AlarmKeys) : o \in AlarmObjects} \cup NonJsonTexts

json_loads(text) ==
    IF \E o \in AlarmObjects : json_dumps(o, AlarmKeys) = text
    THEN Some(CHOOSE o \in AlarmObjects : json_dumps(o, AlarmKeys) = text)
    ELSE None

(***************************************************************************)
(* Inbound events.  A record is [Sns |-> None] when it has no Sns.Message  *)
(* (a record of another transport) and [Sns |-> <<text>>] otherwise; an    *)
(* event is a dict with or without a Records list, or an object that       *)
(* json.dumps cannot serialise.                                            *)
(***************************************************************************)
FirstRecords == {[Sns |-> None]} \cup {[Sns |-> Some(t)] : t \in MessageTexts}
MoreRecords ==
    {[Sns |-> Some("not json")],
     [Sns |-> Some(json_dumps(AlarmPayload("HighErrorRate", "OK"), AlarmKeys))]}

\* Records lists: empty, one record, or a first record followed by another.
RecordLists ==
    {<< >>}
    \cup {<<r>> : r \in FirstRecords}
    \cup {<<r, m>> : r \in FirstRecords, m \in MoreRecords}

Events ==
    {[serializable |-> TRUE, Records |-> None]}
    \cup {[serializable |-> TRUE, Records |-> Some(l)] : l \in RecordLists}
    \cup {[serializable |-> FALSE, Records |-> None]}

NoEvent == [serializable |-> TRUE, Records |-> None]

\* parse_alarm_event reading the fields with dict.get: a missing field
\* becomes "None" instead of raising.
parse_alarm_event_defaults(event) ==
    IF event.Records = None THEN None
    ELSE LET records == event.Records[1] IN
         IF Len(records) = 0 THEN None
         ELSE LET rec == records[1] IN
              IF rec.Sns = None THEN None
              ELSE LET loaded == json_loads(rec.Sns[1]) IN
                   IF loaded = None THEN None
                   ELSE LET sns_message == loaded[1]
                            get(k) == IF k \in DOMAIN sns_message
                                      THEN sns_message[k] ELSE "None"
                        IN  Some([alarm_name |-> get("AlarmName"),
                                  new_state  |-> get("NewStateValue"),
                                  reason     |-> get("NewStateReason"),
                                  timestamp  |-> get("StateChangeTime")])

\* parse_alarm_event reading the last record of the envelope instead of
\* the first.
parse_alarm_event_last(event) ==
    IF event.Records = None THEN None
    ELSE LET records == event.Records[1] IN
         IF Len(records) = 0 THEN None
         ELSE LET rec == records[Len(records)] IN
              IF rec.Sns = None THEN None
              ELSE LET loaded == json_loads(rec.Sns[1]) IN
                   IF loaded = None THEN None
                   ELSE LET sns_message == loaded[1] IN
                        IF ~(RequiredKeys \subseteq DOMAIN sns_message) THEN None
                        ELSE Some([alarm_name |-> sns_message["AlarmName"],
                                   new_state  |-> sns_message["NewStateValue"],
                                   reason     |-> sns_message["NewStateReason"],
                                   timestamp  |-> sns_message["StateChangeTime"]])

\* parse_alarm_event: the alarm record, or None on every failure.
parse_alarm_event(event) ==
    IF event.Records = None THEN None
    ELSE LET records == event.Records[1] IN
         IF Len(records) = 0 THEN None
         ELSE LET rec == records[1] IN
              IF rec.Sns = None THEN None
              ELSE LET loaded == json_loads(rec.Sns[1]) IN
                   IF loaded = None THEN None
                   ELSE LET sns_message == loaded[1] IN
                        IF ~(RequiredKeys \subseteq DOMAIN sns_message) THEN None
                        ELSE Some([alarm_name |-> sns_message["AlarmName"],
                                   new_state  |-> sns_message["NewStateValue"],
                                   reason     |-> sns_message["NewStateReason"],
                                   timestamp  |-> sns_message["StateChangeTime"]])


(***************************************************************************)
(* Configuration (module-level globals of both lambdas).                   *)
(***************************************************************************)
CLUSTER_NAME == "sample-app-cluster"
SERVICE_NAME == "sample-app-service"
TopicArns == {None, Some("arn:aws:sns:us-east-1:rollback-alerts")}

\* datetime.utcnow().isoformat(): the clock reads n seconds past the hour
\* during the n-th invocation.
isoformat(n) == "2024-01-01T00:00:0" \o ToString(n)

\* str(e) of the exceptions the platform clients raise.
PlatformErrors == {"ClusterNotFoundException", "Read timeout on endpoint URL"}
SerializeError == "Object of type set is not JSON serializable"

(***************************************************************************)
(* The orchestration platform: the service runs revision rev of the task   *)
(* definition family; every revision 1..MaxRevision of it is registered.   *)
(***************************************************************************)
Families == {"app", "sample-app"}
Revisions == 1..MaxRevision

TaskDefName(fam, n) == fam \o ":" \o ToString(n)
TaskDefArn(fam, n) == "arn:aws:ecs:us-east-1:task-definition/" \o TaskDefName(fam, n)
DeploymentId(n) == "ecs-svc/" \o ToString(n)

\* The registered task definitions, as describe_task_definition returns them.
Registry(fam) == {[family |-> fam, revision |-> n] : n \in Revisions}

\* The registered task definition an ARN or a family:revision name denotes.
Lookup(fam, td) ==
    {d \in Registry(fam) : td \in {TaskDefArn(d.family, d.revision),
                                   TaskDefName(d.family, d.revision)}}

VARIABLES
    family,          \* platform: the service's task definition family
    rev,             \* platform: the revision the service runs
    deployments,     \* platform: number of deployments started by updates
    serviceExists,   \* platform: whether describe_services finds the service
    SNS_TOPIC_ARN,   \* configuration: None or the topic
    pc,              \* per invocation slot: where the handler is
    event,           \* the event the handler was invoked with
    alarm_data,      \* parse_alarm_event's result
    service,         \* describe_services' service (None before)
    service_info,    \* get_service_deployment_info's result
    rollback_result, \* perform_rollback's result
    response,        \* the response the handler returns
    calls,           \* the functions lambda_handler has called, in order
    requests,        \* the platform requests issued, in order
    notifications,   \* the (subject, message) pairs given to send_notification
    published,       \* the messages sns_client.publish accepted
    invocations,     \* number of invocations started
    succeeded,       \* number of invocations that returned status 200
    r0,              \* the revision the service ran initially
    held,            \* every revision the service has run
    lastWrite        \* the last update the platform applied

platformVars == <<family, rev, deployments, serviceExists>>
localVars == <<pc, event, alarm_data, service, service_info, rollback_result, response>>
logVars == <<calls, requests, notifications, published>>
historyVars == <<invocations, succeeded, r0, held, lastWrite>>
VARIABLES
    hc_pc,           \* where the prober's handler is
    taskArns,        \* list_tasks' taskArns
    hc_tasks,        \* describe_tasks' tasks
    hc_pos,          \* number of health requests made in this scan
    healthy_count,   \* check_task_health's counter
    response_times,  \* check_task_health's list
    probes,          \* the health requests made, in order, each with its outcome
    metric_calls,    \* the (name, value) pairs given to publish_metric
    metrics,         \* the samples put_metric_data accepted
    hc_requests,     \* the platform requests the prober issued
    hc_response      \* the response the prober returns

proberVars == <<hc_pc, taskArns, hc_tasks, hc_pos, healthy_count, response_times,
                probes, metric_calls, metrics, hc_requests, hc_response>>

VARIABLES
    app_state,       \* sample service: request_count, error_count, healthy
    app_state0,      \* app_state when the observation began
    handled,         \* number of requests the service's handlers served since
    toggles,         \* number of those that were POST /api/toggle-health
    last_response    \* route and status of the last response (None before)

appVars == <<app_state, app_state0, handled, toggles, last_response>>

controllerVars == <<platformVars, SNS_TOPIC_ARN, localVars, logVars, historyVars>>
vars == <<controllerVars, proberVars, appVars>>

InitController ==
    /\ family \in Families
    /\ rev \in Revisions
    /\ deployments = 0
    /\ serviceExists \in BOOLEAN
    /\ SNS_TOPIC_ARN \in TopicArns
    /\ pc = [p \in Procs |-> "idle"]
    /\ event = [p \in Procs |-> NoEvent]
    /\ alarm_data = [p \in Procs |-> None]
    /\ service = [p \in Procs |-> None]
    /\ service_info = [p \in Procs |-> None]
    /\ rollback_result = [p \in Procs |-> None]
    /\ response = [p \in Procs |-> None]
    /\ calls = [p \in Procs |-> << >>]
    /\ requests = [p \in Procs |-> << >>]
    /\ notifications = [p \in Procs |-> << >>]
    /\ published = [p \in Procs |-> << >>]
    /\ invocations = 0
    /\ succeeded = 0
    /\ r0 = rev
    /\ held = {rev}
    /\ lastWrite = None

(***************************************************************************)
(* Helpers of auto_rollback.py.                                            *)
(***************************************************************************)
create_response(status_code, message, now) ==
    [statusCode |-> status_code,
     body |-> json_dumps([message |-> message, timestamp |-> now],
                         <<"message", "timestamp">>)]

full_message(subject, message, now) ==
    "\n" \o subject \o "\n\n" \o message \o "\n\nCluster: " \o CLUSTER_NAME
    \o "\nService: " \o SERVICE_NAME \o "\nTimestamp: " \o now
    \o "\n\nThis is an automated notification from the CI/CD pipeline rollback system.\n"

\* What sns_client.publish may do with a message: accept it, or raise.
PublishOutcomes == {"ok", "raise"}

\* send_notification: nothing without a topic; otherwise one publish, whose
\* exception is swallowed.
send_notification(p, subject, message) ==
    /\ notifications' = [notifications EXCEPT ![p] =
                            Append(@, [subject |-> subject, message |-> message])]
    /\ IF SNS_TOPIC_ARN = None
       THEN published' = published
       ELSE \E outcome \in PublishOutcomes :
               published' =
                   IF outcome = "ok"
                   THEN [published EXCEPT ![p] =
                            Append(@, [TopicArn |-> SNS_TOPIC_ARN[1],
                                       Subject |-> subject,
                                       Message |-> full_message(subject, message,
                                                               isoformat(invocations))])]
                   ELSE published

\* return create_response(...): the handler's result.
Respond(p, status_code, message) ==
    /\ response' = [response EXCEPT ![p] =
                        Some(create_response(status_code, message, isoformat(invocations)))]
    /\ pc' = [pc EXCEPT ![p] = "done"]


(***************************************************************************)
(* get_service_deployment_info and perform_rollback, as functions of what  *)
(* the platform answered.                                                  *)
(***************************************************************************)
\* previous_revision stepping two revisions back.
previous_revision_skip(current_revision) == Max(1, current_revision - 2)

\* previous_revision without the floor at 1.
previous_revision_no_floor(current_revision) == current_revision - 1

\* previous_revision without the subtraction.
previous_revision_same(current_revision) == Max(1, current_revision)

previous_revision(current_revision) == Max(1, current_revision - 1)

get_service_deployment_info(svc, task_def) ==
    [current_task_def |-> svc.taskDefinition,
     previous_task_def |-> TaskDefName(task_def.family, previous_revision(task_def.revision)),
     deployments |-> svc.deployments]

\* What update_service may do: apply the update and answer; reject it
\* (raise, nothing applied); apply it and raise all the same (the answer is
\* lost or cannot be read).
UpdateOutcomes == {"ok", "rejected", "lost"}

\* str(e) of the exception update_service raises: any platform error when
\* the update is rejected, a timeout of the answer when it was applied.
UpdateErrors(outcome) ==
    IF outcome = "lost" THEN {"Read timeout on endpoint URL"} ELSE PlatformErrors

\* perform_rollback reporting the current task definition as the target.
perform_rollback_wrong_id(info, outcome, err, deployment_id) ==
    IF outcome = "ok"
    THEN [success |-> TRUE,
          previous_task_def |-> info.current_task_def,
          deployment_id |-> deployment_id]
    ELSE [success |-> FALSE, error |-> err]

\* perform_rollback leaving the deployment id out of its success result.
perform_rollback_no_id(info, outcome, err, deployment_id) ==
    IF outcome = "ok"
    THEN [success |-> TRUE, previous_task_def |-> info.previous_task_def]
    ELSE [success |-> FALSE, error |-> err]

perform_rollback(info, outcome, err, deployment_id) ==
    IF outcome = "ok"
    THEN [success |-> TRUE,
          previous_task_def |-> info.previous_task_def,
          deployment_id |-> deployment_id]
    ELSE [success |-> FALSE, error |-> err]

\* rollback_report with the error text left out of the failure message.
rollback_report_no_error(result) ==
    IF result.success
    THEN [statusCode |-> 200, subject |-> "Rollback Successful",
          message |-> "Rollback completed successfully. Reverted to task definition: "
                      \o result.previous_task_def]
    ELSE [statusCode |-> 500, subject |-> "Rollback Failed",
          message |-> "Rollback failed"]

\* rollback_report announcing success whatever the result.
rollback_report_wrong_subject(result) ==
    IF result.success
    THEN [statusCode |-> 200, subject |-> "Rollback Successful",
          message |-> "Rollback completed successfully. Reverted to task definition: "
                      \o result.previous_task_def]
    ELSE [statusCode |-> 500, subject |-> "Rollback Successful",
          message |-> "Rollback failed: " \o result.error]

\* Lines 39-46 of lambda_handler: what is notified and returned for a result.
rollback_report(result) ==
    IF result.success
    THEN [statusCode |-> 200, subject |-> "Rollback Successful",
          message |-> "Rollback completed successfully. Reverted to task definition: "
                      \o result.previous_task_def]
    ELSE [statusCode |-> 500, subject |-> "Rollback Failed",
          message |-> "Rollback failed: " \o result.error]

\* NotifyAndRespond with a send_notification that does not catch the
\* exception of publish: it reaches the handler's except clause, which
\* notifies again and answers 500.
NotifyAndRespond_unguarded(p, subject, message, status_code, response_message) ==
    IF SNS_TOPIC_ARN = None
    THEN /\ send_notification(p, subject, message)
         /\ Respond(p, status_code, response_message)
    ELSE \E outcome \in PublishOutcomes :
            IF outcome = "ok"
            THEN /\ notifications' = [notifications EXCEPT ![p] =
                        Append(@, [subject |-> subject, message |-> message])]
                 /\ published' = [published EXCEPT ![p] =
                        Append(@, [TopicArn |-> SNS_TOPIC_ARN[1], Subject |-> subject,
                                   Message |-> full_message(subject, message,
                                                            isoformat(invocations))])]
                 /\ Respond(p, status_code, response_message)
            ELSE /\ notifications' = [notifications EXCEPT ![p] =
                        @ \o <<[subject |-> subject, message |-> message],
                               [subject |-> "Rollback Critical Error",
                                message |-> "Critical error during rollback: publish failed"]>>]
                 /\ published' = published
                 /\ Respond(p, 500, "Critical error during rollback: publish failed")

\* send_notification(subject, message) followed by
\* return create_response(status_code, response_message).
NotifyAndRespond(p, subject, message, status_code, response_message) ==
    /\ send_notification(p, subject, message)
    /\ Respond(p, status_code, response_message)

\* critical_message without the text of the exception.
critical_message_generic(err) == "Critical error during rollback"

\* Line 49: error_message.
critical_message(err) == "Critical error during rollback: " \o err

Request(op, task_def, force) ==
    [op |-> op, taskDefinition |-> task_def, forceNewDeployment |-> force]

(***************************************************************************)
(* The controller: lambda_handler of auto_rollback.py, one action per      *)
(* platform call.                                                          *)
(***************************************************************************)
\* The runtime delivers an event to a free slot.
Invoke(p, ev) ==
    /\ pc[p] = "idle"
    /\ invocations < MaxInvocations
    /\ invocations' = invocations + 1
    /\ event' = [event EXCEPT ![p] = ev]
    /\ pc' = [pc EXCEPT ![p] = "handler"]
    /\ UNCHANGED <<platformVars, SNS_TOPIC_ARN, alarm_data, service, service_info,
                   rollback_result, response, logVars, succeeded, r0, held,
                   lastWrite, proberVars, appVars>>

\* Decode going on to the resolver whatever parse_alarm_event returned.
Decode_no_check(p) ==
    /\ pc[p] = "handler"
    /\ event[p].serializable
    /\ calls' = [calls EXCEPT ![p] = Append(@, "parse_alarm_event")]
    /\ alarm_data' = [alarm_data EXCEPT ![p] = parse_alarm_event(event[p])]
    /\ pc' = [pc EXCEPT ![p] = "describe_services"]
    /\ UNCHANGED <<platformVars, SNS_TOPIC_ARN, event, service, service_info,
                   rollback_result, response, requests, notifications, published,
                   historyVars, proberVars, appVars>>

\* Decode acting only on an alarm whose new state is ALARM, and answering
\* 200 without a rollback for any other decoded alarm.
Decode_alarm_only(p) ==
    /\ pc[p] = "handler"
    /\ event[p].serializable
    /\ calls' = [calls EXCEPT ![p] = Append(@, "parse_alarm_event")]
    /\ alarm_data' = [alarm_data EXCEPT ![p] = parse_alarm_event(event[p])]
    /\ IF parse_alarm_event(event[p]) = None
       THEN Respond(p, 400, "Invalid alarm event")
       ELSE IF parse_alarm_event(event[p])[1].new_state # "ALARM"
            THEN Respond(p, 200, "No rollback needed")
            ELSE /\ pc' = [pc EXCEPT ![p] = "describe_services"]
                 /\ UNCHANGED response
    /\ UNCHANGED <<platformVars, SNS_TOPIC_ARN, event, service, service_info,
                   rollback_result, requests, notifications, published,
                   historyVars, proberVars, appVars>>

\* Lines 20-27: log the event, decode it, answer 400 if there is no alarm.
\* json.dumps(event) raising is caught by lines 48-52.
Decode(p) ==
    /\ pc[p] = "handler"
    /\ IF ~event[p].serializable
       THEN /\ NotifyAndRespond(p, "Rollback Critical Error",
                                 critical_message(SerializeError),
                                 500, critical_message(SerializeError))
            /\ UNCHANGED <<alarm_data, calls>>
       ELSE /\ calls' = [calls EXCEPT ![p] = Append(@, "parse_alarm_event")]
            /\ alarm_data' = [alarm_data EXCEPT ![p] = parse_alarm_event(event[p])]
            /\ IF parse_alarm_event(event[p]) = None
               THEN /\ Respond(p, 400, "Invalid alarm event")
                    /\ UNCHANGED <<notifications, published>>
               ELSE /\ pc' = [pc EXCEPT ![p] = "describe_services"]
                    /\ UNCHANGED <<response, notifications, published>>
    /\ UNCHANGED <<platformVars, SNS_TOPIC_ARN, event, service, service_info,
                   rollback_result, requests, historyVars, proberVars, appVars>>

\* ServiceTaskDefinition answered from a copy kept since the start instead
\* of the platform's present state.
ServiceTaskDefinition_cached == TaskDefArn(family, r0)

\* service['taskDefinition'] of the service describe_services returns: the
\* task definition the service runs at the time of the call.
ServiceTaskDefinition == TaskDefArn(family, rev)

\* ResolverFailed without the notification.
ResolverFailed_silent(p) ==
    /\ Respond(p, 500, "Failed to get service info")
    /\ UNCHANGED <<notifications, published>>

\* ResolverFailed answering with the client-error status.
ResolverFailed_client_error(p) ==
    /\ send_notification(p, "Rollback Failed",
                         "Unable to retrieve service deployment information")
    /\ Respond(p, 400, "Failed to get service info")

\* Lines 32-34: the resolver returned None.
ResolverFailed(p) ==
    NotifyAndRespond(p, "Rollback Failed",
                     "Unable to retrieve service deployment information",
                     500, "Failed to get service info")

\* Lines 30, 76-89: describe_services; it raises, finds no service, or
\* returns the service with its current task definition.
DescribeServices(p) ==
    /\ pc[p] = "describe_services"
    /\ calls' = [calls EXCEPT ![p] = Append(@, "get_service_deployment_info")]
    /\ requests' = [requests EXCEPT ![p] = Append(@, Request("describe_services", "", FALSE))]
    /\ \E outcome \in {"ok", "raise"} :
          IF outcome = "raise" \/ ~serviceExists
          THEN /\ ResolverFailed(p)
               /\ UNCHANGED service
          ELSE /\ service' = [service EXCEPT ![p] =
                                 Some([taskDefinition |-> ServiceTaskDefinition,
                                       deployments |-> <<DeploymentId(deployments)>>])]
               /\ pc' = [pc EXCEPT ![p] = "describe_task_definition"]
               /\ UNCHANGED <<response, notifications, published>>
    /\ UNCHANGED <<platformVars, SNS_TOPIC_ARN, event, alarm_data, service_info,
                   rollback_result, historyVars, proberVars, appVars>>

\* Lines 92-110: describe_task_definition of the current task definition,
\* then the previous revision.
DescribeTaskDefinition(p) ==
    /\ pc[p] = "describe_task_definition"
    /\ requests' = [requests EXCEPT ![p] =
                       Append(@, Request("describe_task_definition",
                                         service[p][1].taskDefinition, FALSE))]
    /\ \E outcome \in {"ok", "raise"} :
          IF outcome = "raise"
          THEN /\ ResolverFailed(p)
               /\ UNCHANGED service_info
          ELSE /\ \E task_def \in Lookup(family, service[p][1].taskDefinition) :
                     service_info' = [service_info EXCEPT ![p] =
                         Some(get_service_deployment_info(service[p][1], task_def))]
               /\ pc' = [pc EXCEPT ![p] = "update_service"]
               /\ UNCHANGED <<response, notifications, published>>
    /\ UNCHANGED <<platformVars, SNS_TOPIC_ARN, event, alarm_data, service,
                   rollback_result, calls, historyVars, proberVars, appVars>>

\* The platform applies update_service(taskDefinition = td): the service
\* runs the revision td names and a new deployment starts.
ApplyUpdate(p, td) ==
    \E task_def \in Lookup(family, td) :
        /\ serviceExists
        /\ rev' = task_def.revision
        /\ deployments' = deployments + 1
        /\ held' = held \cup {task_def.revision}
        /\ lastWrite' = Some([taskDefinition |-> td,
                              current_task_def |-> service_info[p][1].current_task_def])

\* Lines 37-46 and 116-139: update_service, the result, the notification
\* and the response.
PerformRollback(p) ==
    /\ pc[p] = "update_service"
    /\ calls' = [calls EXCEPT ![p] = Append(@, "perform_rollback")]
    /\ LET previous_task_def == service_info[p][1].previous_task_def IN
       /\ requests' = [requests EXCEPT ![p] =
                          Append(@, Request("update_service", previous_task_def, TRUE))]
       /\ \E outcome \in UpdateOutcomes : \E err \in UpdateErrors(outcome) :
             LET result == perform_rollback(service_info[p][1], outcome, err,
                                            DeploymentId(deployments + 1))
                 report == rollback_report(result)
             IN  /\ IF outcome = "rejected"
                    THEN UNCHANGED <<rev, deployments, held, lastWrite>>
                    ELSE ApplyUpdate(p, previous_task_def)
                 /\ rollback_result' = [rollback_result EXCEPT ![p] = Some(result)]
                 /\ NotifyAndRespond(p, report.subject, report.message,
                                     report.statusCode, report.message)
    /\ UNCHANGED <<family, serviceExists, SNS_TOPIC_ARN, event, alarm_data, service,
                   service_info, invocations, succeeded, r0, proberVars, appVars>>

\* The handler returns its response to the runtime; the invocation's
\* records are discarded.
Return(p) ==
    /\ pc[p] = "done"
    /\ succeeded' = succeeded + (IF response[p][1].statusCode = 200 THEN 1 ELSE 0)
    /\ pc' = [pc EXCEPT ![p] = "idle"]
    /\ event' = [event EXCEPT ![p] = NoEvent]
    /\ alarm_data' = [alarm_data EXCEPT ![p] = None]
    /\ service' = [service EXCEPT ![p] = None]
    /\ service_info' = [service_info EXCEPT ![p] = None]
    /\ rollback_result' = [rollback_result EXCEPT ![p] = None]
    /\ response' = [response EXCEPT ![p] = None]
    /\ calls' = [calls EXCEPT ![p] = << >>]
    /\ requests' = [requests EXCEPT ![p] = << >>]
    /\ notifications' = [notifications EXCEPT ![p] = << >>]
    /\ published' = [published EXCEPT ![p] = << >>]
    /\ UNCHANGED <<platformVars, SNS_TOPIC_ARN, invocations, r0, held, lastWrite,
                   proberVars, appVars>>

(***************************************************************************)
(* The health prober: lambda_handler of health_check.py.                   *)
(*                                                                         *)
(* A running task is the list of its attachments; an attachment has a type *)
(* and details, and the private address of an ElasticNetworkInterface is   *)
(* its detail named privateIPv4Address.                                    *)
(***************************************************************************)
\* Most running tasks the service has.
MaxTasks == 2

HEALTH_ENDPOINT == "/health"

Address(i, k) == "10.0." \o ToString(i) \o "." \o ToString(k)

Eni(ip) ==
    [type |-> "ElasticNetworkInterface",
     details |-> <<[name |-> "subnetId", value |-> "subnet-1"],
                   [name |-> "privateIPv4Address", value |-> ip]>>]
OtherAttachment ==
    [type |-> "ServiceConnect",
     details |-> <<[name |-> "privateIPv4Address", value |-> "10.9.9.9"]>>]

\* The tasks the i-th running task may be: without attachments, with an
\* attachment that is no network interface, with one network interface, or
\* with two.
TaskArn(i) == "task/" \o ToString(i)

TaskShapes(i) ==
    {[taskArn |-> TaskArn(i), attachments |-> a] :
        a \in {<< >>, <<OtherAttachment>>, <<Eni(Address(i, 1))>>,
               <<Eni(Address(i, 1)), Eni(Address(i, 2))>>}}

RECURSIVE TaskLists(_)
TaskLists(n) ==
    IF n = 0 THEN {<< >>}
    ELSE TaskLists(n - 1)
         \cup {Append(l, t) : l \in {x \in TaskLists(n - 1) : Len(x) = n - 1},
                              t \in TaskShapes(n)}

\* What one http.request may do: answer 200, answer another status, raise.
HttpOutcomes == {"200", "503", "raise"}
\* response.duration where the response has one, else 0.
Durations == {0, 2}
ProbeErrors == {"ClusterNotFoundException"}

InitProberLocals ==
    /\ hc_pc = "idle"
    /\ taskArns = << >>
    /\ hc_tasks = << >>
    /\ hc_pos = 0
    /\ healthy_count = 0
    /\ response_times = << >>
    /\ probes = << >>
    /\ metric_calls = << >>
    /\ metrics = << >>
    /\ hc_requests = << >>
    /\ hc_response = None

\* The addresses check_task_health requests, in the order of its loops:
\* every privateIPv4Address detail of every ElasticNetworkInterface
\* attachment of every task.
RECURSIVE DetailAddresses(_, _)
DetailAddresses(details, k) ==
    IF k > Len(details) THEN << >>
    ELSE (IF details[k].name = "privateIPv4Address" THEN <<details[k].value>> ELSE << >>)
         \o DetailAddresses(details, k + 1)

RECURSIVE AttachmentAddresses(_, _)
AttachmentAddresses(attachments, k) ==
    IF k > Len(attachments) THEN << >>
    ELSE (IF attachments[k].type = "ElasticNetworkInterface"
          THEN DetailAddresses(attachments[k].details, 1) ELSE << >>)
         \o AttachmentAddresses(attachments, k + 1)

RECURSIVE TaskAddresses(_, _)
TaskAddresses(tasks, k) ==
    IF k > Len(tasks) THEN << >>
    ELSE AttachmentAddresses(tasks[k].attachments, 1) \o TaskAddresses(tasks, k + 1)

health_url(ip_address) == "http://" \o ip_address \o ":5000" \o HEALTH_ENDPOINT

RECURSIVE Sum(_, _)
Sum(seq, k) == IF k > Len(seq) THEN 0 ELSE seq[k] + Sum(seq, k + 1)

\* Lines 95-102: the aggregate.  avg_response_time is the pair
\* <<sum, count>> of the quotient sum / count, and <<0, 1>> for 0.
health_status(healthy, total_count, times) ==
    [healthy |-> healthy = total_count /\ total_count > 0,
     healthy_count |-> healthy,
     total_count |-> total_count,
     avg_response_time |-> IF times # << >> THEN <<Sum(times, 1), Len(times)>> ELSE <<0, 1>>]


\* publish_metric: one put_metric_data, whose exception is swallowed.
\* samples is the list of (name, value) pairs published in this step and
\* accepted the set of their positions that put_metric_data accepts.
MetricSample(name, value) == [MetricName |-> name, Value |-> value]

RECURSIVE Accepted(_, _, _)
Accepted(samples, accepted, k) ==
    IF k > Len(samples) THEN << >>
    ELSE (IF k \in accepted THEN <<samples[k]>> ELSE << >>)
         \o Accepted(samples, accepted, k + 1)

publish_metrics(samples) ==
    /\ metric_calls' = metric_calls \o samples
    /\ \E accepted \in SUBSET (1..Len(samples)) :
          metrics' = metrics \o Accepted(samples, accepted, 1)

HcRespond(status_code, message) ==
    /\ hc_response' = Some(create_response(status_code, message, isoformat(invocations)))
    /\ hc_pc' = "done"

\* HcFailed with a publish_metric that does not catch the exception of
\* put_metric_data: raised inside the except clause, it ends the handler
\* without a response.
HcFailed_crash(err) ==
    /\ metric_calls' = Append(metric_calls, MetricSample("HealthCheckStatus", <<0, 1>>))
    /\ metrics' = metrics
    /\ hc_response' = None
    /\ hc_pc' = "crashed"

\* Lines 63-66: an exception reached the handler's except clause.
HcFailed(err) ==
    /\ publish_metrics(<<MetricSample("HealthCheckStatus", <<0, 1>>)>>)
    /\ HcRespond(500, "Health check failed: " \o err)

\* NoRunningTasks without the metric.
NoRunningTasks_no_metric ==
    /\ HcRespond(500, "No running tasks found")
    /\ UNCHANGED <<metric_calls, metrics>>

\* Lines 40-42: list_tasks found no running task.
NoRunningTasks ==
    /\ publish_metrics(<<MetricSample("HealthCheckStatus", <<0, 1>>)>>)
    /\ HcRespond(500, "No running tasks found")

\* The schedule invokes the prober.
HcInvoke ==
    /\ hc_pc = "idle"
    /\ hc_pc' = "describe_services"
    /\ UNCHANGED <<controllerVars, appVars, taskArns, hc_tasks, hc_pos, healthy_count,
                   response_times, probes, metric_calls, metrics, hc_requests,
                   hc_response>>

\* Lines 23-31: describe_services.
HcDescribeServices ==
    /\ hc_pc = "describe_services"
    /\ hc_requests' = Append(hc_requests, "describe_services")
    /\ \E outcome \in {"ok", "raise"}, err \in ProbeErrors :
          IF outcome = "raise"
          THEN HcFailed(err)
          ELSE IF ~serviceExists
               THEN /\ HcRespond(500, "Service not found")
                    /\ UNCHANGED <<metric_calls, metrics>>
               ELSE /\ hc_pc' = "list_tasks"
                    /\ UNCHANGED <<metric_calls, metrics, hc_response>>
    /\ UNCHANGED <<controllerVars, appVars, taskArns, hc_tasks, hc_pos, healthy_count,
                   response_times, probes>>

\* Lines 34-42: list_tasks answers with the tasks running at that moment.
HcListTasks ==
    /\ hc_pc = "list_tasks"
    /\ hc_requests' = Append(hc_requests, "list_tasks")
    /\ \E outcome \in {"ok", "raise"}, err \in ProbeErrors, n \in 0..MaxTasks :
          IF outcome = "raise"
          THEN /\ HcFailed(err)
               /\ UNCHANGED taskArns
          ELSE /\ taskArns' = [i \in 1..n |-> TaskArn(i)]
               /\ IF n = 0
                  THEN NoRunningTasks
                  ELSE /\ hc_pc' = "describe_tasks"
                       /\ UNCHANGED <<metric_calls, metrics, hc_response>>
    /\ UNCHANGED <<controllerVars, appVars, hc_tasks, hc_pos, healthy_count, response_times, probes>>

\* Lines 45-50, 72-74: describe_tasks answers with one task for each
\* listed ARN, and check_task_health begins.
HcDescribeTasks ==
    /\ hc_pc = "describe_tasks"
    /\ hc_requests' = Append(hc_requests, "describe_tasks")
    /\ \E outcome \in {"ok", "raise"}, err \in ProbeErrors :
          IF outcome = "raise"
          THEN /\ HcFailed(err)
               /\ UNCHANGED hc_tasks
          ELSE /\ \E tasks \in TaskLists(Len(taskArns)) :
                     /\ Len(tasks) = Len(taskArns)
                     /\ hc_tasks' = tasks
               /\ hc_pc' = "check_task_health"
               /\ UNCHANGED <<metric_calls, metrics, hc_response>>
    /\ UNCHANGED <<controllerVars, appVars, taskArns, hc_pos, healthy_count,
                   response_times, probes>>

\* HcProbe without the try around the request: an exception of
\* http.request reaches the handler's except clause and ends the scan.
HcProbe_abort ==
    /\ hc_pc = "check_task_health"
    /\ hc_pos < Len(TaskAddresses(hc_tasks, 1))
    /\ hc_pos' = hc_pos + 1
    /\ \E outcome \in HttpOutcomes, duration \in Durations :
          /\ probes' = Append(probes, [url |-> health_url(TaskAddresses(hc_tasks, 1)[hc_pos + 1]),
                                       outcome |-> outcome])
          /\ IF outcome = "200"
             THEN /\ healthy_count' = healthy_count + 1
                  /\ response_times' = Append(response_times, duration)
             ELSE UNCHANGED <<healthy_count, response_times>>
          /\ IF outcome = "raise"
             THEN HcFailed("timed out")
             ELSE UNCHANGED <<hc_pc, metric_calls, metrics, hc_response>>
    /\ UNCHANGED <<controllerVars, appVars, taskArns, hc_tasks, hc_requests>>

\* Lines 76-93: the next health request of the scan.
HcProbe ==
    /\ hc_pc = "check_task_health"
    /\ hc_pos < Len(TaskAddresses(hc_tasks, 1))
    /\ hc_pos' = hc_pos + 1
    /\ \E outcome \in HttpOutcomes, duration \in Durations :
          /\ probes' = Append(probes, [url |-> health_url(TaskAddresses(hc_tasks, 1)[hc_pos + 1]),
                                       outcome |-> outcome])
          /\ IF outcome = "200"
             THEN /\ healthy_count' = healthy_count + 1
                  /\ response_times' = Append(response_times, duration)
             ELSE UNCHANGED <<healthy_count, response_times>>
    /\ UNCHANGED <<controllerVars, appVars, hc_pc, taskArns, hc_tasks, metric_calls, metrics,
                   hc_requests, hc_response>>

\* StatusValue reporting 1 whatever the verdict.
StatusValue_always_up(healthy) == <<1, 1>>

\* Line 53: 1 if health_status['healthy'] else 0.
StatusValue(healthy) == IF healthy THEN <<1, 1>> ELSE <<0, 1>>

\* Lines 95-102 and 53-61: the aggregate, the four metrics, the response.
HcReport ==
    /\ hc_pc = "check_task_health"
    /\ hc_pos = Len(TaskAddresses(hc_tasks, 1))
    /\ LET status == health_status(healthy_count, Len(hc_tasks), response_times) IN
       /\ publish_metrics(<<MetricSample("HealthCheckStatus", StatusValue(status.healthy)),
                            MetricSample("ResponseTime", status.avg_response_time),
                            MetricSample("HealthyTasks", <<status.healthy_count, 1>>),
                            MetricSample("TotalTasks", <<status.total_count, 1>>)>>)
       /\ HcRespond(IF status.healthy THEN 200 ELSE 500,
                    "Health check completed: " \o ToString(status.healthy_count) \o "/"
                    \o ToString(status.total_count) \o " tasks healthy")
    /\ UNCHANGED <<controllerVars, appVars, taskArns, hc_tasks, hc_pos, healthy_count,
                   response_times, probes, hc_requests>>

\* The prober returns its response; the invocation's records are discarded.
HcReturn ==
    /\ hc_pc = "done"
    /\ hc_pc' = "idle"
    /\ taskArns' = << >>
    /\ hc_tasks' = << >>
    /\ hc_pos' = 0
    /\ healthy_count' = 0
    /\ response_times' = << >>
    /\ probes' = << >>
    /\ metric_calls' = << >>
    /\ metrics' = << >>
    /\ hc_requests' = << >>
    /\ hc_response' = None
    /\ UNCHANGED <<controllerVars, appVars>>

HcStep ==
    \/ HcDescribeServices
    \/ HcListTasks
    \/ HcDescribeTasks
    \/ HcProbe
    \/ HcReport
    \/ HcReturn

(***************************************************************************)
(* The sample service: the Flask application of app.py.  A view is a       *)
(* function of app_state that gives the new app_state and the status of    *)
(* the response; the bodies of the responses are left out.                  *)
(***************************************************************************)
\* Most requests the service's handlers serve.
MaxRequests == 4

Counted(st) == [st EXCEPT !.request_count = @ + 1]
Failed(st) == [st EXCEPT !.error_count = @ + 1]
Answer(st, status) == [app_state |-> st, status |-> status]

home(st) == Answer(Counted(st), 200)

health(st) == Answer(Counted(st), IF ~st.healthy THEN 503 ELSE 200)

readiness(st) == Answer(Counted(st), IF st.healthy THEN 200 ELSE 503)

app_metrics(st) == Answer(Counted(st), 200)

get_data(st) == Answer(Counted(st), 200)

\* What request.json gives create_data: a non-empty JSON value, an empty
\* one ({}, null, 0, ""), or no JSON at all; for the last, request.json
\* returns None or raises an HTTP error (415 or 400) that Flask answers
\* itself, depending on the Flask release.
Bodies == {"object", "empty", "unsupported"}
JsonFailures == {"none", "415"}

create_data(st, body, failure) ==
    IF body = "object" THEN Answer(Counted(st), 201)
    ELSE IF body = "unsupported" /\ failure = "415" THEN Answer(Counted(st), 415)
    ELSE Answer(Failed(Counted(st)), 400)

\* simulate_error counting the error only.
simulate_error_uncounted(st) == Answer(Failed(st), 500)

simulate_error(st) == Answer(Failed(Counted(st)), 500)

\* toggle_health that only ever marks the service unhealthy.
toggle_health_degrade(st) == Answer([Counted(st) EXCEPT !.healthy = FALSE], 200)

toggle_health(st) == Answer([Counted(st) EXCEPT !.healthy = ~st.healthy], 200)

version(st) == Answer(Counted(st), 200)

not_found(st) == Answer(Failed(Counted(st)), 404)

\* Flask calls the view (or the 404 handler) of the request and sends its
\* response.
Serve(route, answer) ==
    /\ handled < MaxRequests
    /\ handled' = handled + 1
    /\ app_state' = answer.app_state
    /\ last_response' = Some([route |-> route, status |-> answer.status])
    /\ toggles' = toggles + (IF route = "POST /api/toggle-health" THEN 1 ELSE 0)
    /\ UNCHANGED <<app_state0, controllerVars, proberVars>>

Home == Serve("GET /", home(app_state))
Health == Serve("GET /health", health(app_state))
Readiness == Serve("GET /ready", readiness(app_state))
Metrics == Serve("GET /metrics", app_metrics(app_state))
GetData == Serve("GET /api/data", get_data(app_state))
CreateData ==
    \E body \in Bodies, failure \in JsonFailures :
        Serve("POST /api/data", create_data(app_state, body, failure))
SimulateError == Serve("GET /api/simulate-error", simulate_error(app_state))
ToggleHealth == Serve("POST /api/toggle-health", toggle_health(app_state))
Version == Serve("GET /version", version(app_state))
NotFound == Serve("GET /nonexistent-endpoint", not_found(app_state))

\* A request for a route with a method the route does not take (405):
\* Flask answers it without calling a view.
MethodNotAllowed ==
    /\ \E route \in {"POST /health", "GET /api/toggle-health"} :
          last_response' = Some([route |-> route, status |-> 405])
    /\ UNCHANGED <<app_state, app_state0, handled, toggles, controllerVars, proberVars>>

(***************************************************************************)
(* Specifications.                                                         *)
(***************************************************************************)
\* app.py lines 30-35: app_state when the module is loaded.
InitAppState ==
    /\ app_state = [request_count |-> 0, error_count |-> 0, healthy |-> TRUE]
    /\ app_state0 = app_state
    /\ handled = 0
    /\ toggles = 0
    /\ last_response = None

Init ==
    /\ InitController
    /\ InitProberLocals
    /\ InitAppState

Step(p) ==
    \/ Decode(p)
    \/ DescribeServices(p)
    \/ DescribeTaskDefinition(p)
    \/ PerformRollback(p)
    \/ Return(p)

\* Invocations one at a time, each in the same execution environment.
Next ==
    \/ \E ev \in Events : (\A q \in Procs : pc[q] = "idle") /\ Invoke(1, ev)
    \/ \E p \in Procs : Step(p)

Spec == Init /\ [][Next]_vars


\* Invocations that may overlap: the runtime starts one whenever a slot is
\* free, whatever the others are doing.  The alarms are one well-formed and
\* one malformed event; no topic is configured.
OverlapEvents ==
    {[serializable |-> TRUE, Records |-> None],
     [serializable |-> TRUE,
      Records |-> Some(<<[Sns |-> Some(json_dumps(AlarmPayload("HighErrorRate", "ALARM"),
                                                  AlarmKeys))]>>)]}

InitOverlap ==
    /\ Init
    /\ family = "app"
    /\ rev = MaxRevision
    /\ serviceExists
    /\ SNS_TOPIC_ARN = None

NextOverlap ==
    \/ \E p \in Procs, ev \in OverlapEvents : Invoke(p, ev)
    \/ \E p \in Procs : Step(p)

SpecOverlap == InitOverlap /\ [][NextOverlap]_vars



\* The prober alone.
InitProber ==
    /\ Init
    /\ family = "app"
    /\ rev = 1
    /\ SNS_TOPIC_ARN = None

NextProber == HcInvoke \/ HcStep

SpecProber == InitProber /\ [][NextProber]_vars


\* Controller and prober under the runtime's scheduling: one invocation at
\* a time, the probe cycles before the alarms, and a started handler keeps
\* running (every platform, HTTP and publish call returns or raises within
\* its timeout).
LiveEvents == OverlapEvents \cup {[serializable |-> FALSE, Records |-> None]}

InitLive ==
    /\ Init
    /\ family = "app"
    /\ rev = MaxRevision

NextLive ==
    \/ \E ev \in LiveEvents :
          (\A q \in Procs : pc[q] = "idle") /\ hc_pc = "idle" /\ Invoke(1, ev)
    \/ \E p \in Procs : Step(p)
    \/ invocations = 0 /\ HcInvoke
    \/ HcStep

SpecLive ==
    /\ InitLive
    /\ [][NextLive]_vars
    /\ \A p \in Procs : WF_vars(Step(p))
    /\ WF_vars(HcStep)


\* The sample service alone, observed from a state the tests put it in: any
\* flag, and counters at zero or already advanced.
InitApp ==
    /\ InitController
    /\ InitProberLocals
    /\ family = "app"
    /\ rev = 1
    /\ serviceExists
    /\ SNS_TOPIC_ARN = None
    /\ \E c \in {<<0, 0>>, <<2, 1>>}, h \in BOOLEAN :
          app_state = [request_count |-> c[1], error_count |-> c[2], healthy |-> h]
    /\ app_state0 = app_state
    /\ handled = 0
    /\ toggles = 0
    /\ last_response = None

NextApp ==
    \/ Home
    \/ Health
    \/ Readiness
    \/ Metrics
    \/ GetData
    \/ CreateData
    \/ SimulateError
    \/ ToggleHealth
    \/ Version
    \/ NotFound
    \/ MethodNotAllowed

SpecApp == InitApp /\ [][NextApp]_vars

(***************************************************************************)
(* Properties.                                                             *)
(***************************************************************************)
Contains(s, t) == \E i \in 1..(Len(s) - Len(t) + 1) : SubSeq(s, i, i + Len(t) - 1) = t

\* The response's body is the JSON text of {message, timestamp} with this
\* message.
HasMessage(resp, m) ==
    \E n \in 0..MaxInvocations :
        resp.body = json_dumps([message |-> m, timestamp |-> isoformat(n)],
                               <<"message", "timestamp">>)

Count(seq, P(_)) == Cardinality({i \in 1..Len(seq) : P(seq[i])})
IsUpdate(r) == r.op = "update_service"
IsDescribeServices(r) == r.op = "describe_services"
IsDescribeTaskDefinition(r) == r.op = "describe_task_definition"
IsResolverCall(c) == c = "get_service_deployment_info"
IsExecutorCall(c) == c = "perform_rollback"

ExecutorFailed(p) == rollback_result[p] # None /\ ~rollback_result[p][1].success
ExecutorSucceeded(p) == rollback_result[p] # None /\ rollback_result[p][1].success

\* C1: whenever perform_rollback reported failure, the handler answers 500
\* with a message carrying the captured error text and has called
\* send_notification exactly once, with subject "Rollback Failed"; and
\* perform_rollback never raises: once it has been called there is a result,
\* and a failure result carries the text of the exception.
C1_ExecutorFailure ==
    \A p \in Procs :
        /\ (Count(calls[p], IsExecutorCall) > 0) => rollback_result[p] # None
        /\ ExecutorFailed(p) =>
              LET err == rollback_result[p][1].error IN
              /\ err \in PlatformErrors
              /\ pc[p] = "done"
              /\ response[p][1].statusCode = 500
              /\ HasMessage(response[p][1], "Rollback failed: " \o err)
              /\ Contains(response[p][1].body, err)
              /\ notifications[p] = <<[subject |-> "Rollback Failed",
                                       message |-> "Rollback failed: " \o err]>>

C1_Witness ==
    \E p \in Procs :
        /\ ExecutorFailed(p)
        /\ pc[p] = "done"
        /\ Len(notifications[p]) = 1
        /\ SNS_TOPIC_ARN # None

\* C2: whenever perform_rollback reported success, the handler answers 200,
\* the body contains the family:revision identifier the resolver computed in
\* this invocation, update_service was issued once, with that identifier and
\* forceNewDeployment, and send_notification was called with "Rollback
\* Successful"; with current revision app:7 the message names app:6.
C2_ExecutorSuccess ==
    /\ \A p \in Procs :
          ExecutorSucceeded(p) =>
              LET td == service_info[p][1].previous_task_def
                  m == "Rollback completed successfully. Reverted to task definition: " \o td
              IN  /\ pc[p] = "done"
                  /\ \E d \in Registry(family) : td = TaskDefName(d.family, d.revision)
                  /\ response[p][1].statusCode = 200
                  /\ HasMessage(response[p][1], m)
                  /\ Contains(response[p][1].body, td)
                  /\ Count(requests[p], IsUpdate) = 1
                  /\ requests[p][Len(requests[p])] = Request("update_service", td, TRUE)
                  /\ notifications[p] = <<[subject |-> "Rollback Successful", message |-> m]>>
    /\ rollback_report(
          perform_rollback(
              get_service_deployment_info(
                  [taskDefinition |-> TaskDefArn("app", 7), deployments |-> << >>],
                  [family |-> "app", revision |-> 7]),
              "ok", "", "d-123")).message
       = "Rollback completed successfully. Reverted to task definition: app:6"

C2_Witness ==
    \E p \in Procs :
        /\ ExecutorSucceeded(p)
        /\ pc[p] = "done"
        /\ service_info[p][1].current_task_def = TaskDefArn("app", 3)
        /\ HasMessage(response[p][1],
                      "Rollback completed successfully. Reverted to task definition: app:2")

\* The envelopes C3 is about: no Records field, an empty Records list, a
\* first message that is not JSON, or one that lacks a required field.
InvalidEnvelope(ev) ==
    /\ ev.serializable
    /\ \/ ev.Records = None
       \/ ev.Records[1] = << >>
       \/ /\ ev.Records[1] # << >>
          /\ ev.Records[1][1].Sns # None
          /\ \/ ev.Records[1][1].Sns[1] \in NonJsonTexts
             \/ \E o \in AlarmObjects :
                   /\ ev.Records[1][1].Sns[1] = json_dumps(o, AlarmKeys)
                   /\ ~(RequiredKeys \subseteq DOMAIN o)

\* C3: for every such envelope the decoder yields None and the handler
\* answers 400; the resolver is never called, no platform request is issued
\* and send_notification is never called in that invocation.
C3_InvalidEnvelope ==
    \A p \in Procs :
        (pc[p] # "idle" /\ InvalidEnvelope(event[p])) =>
            /\ parse_alarm_event(event[p]) = None
            /\ alarm_data[p] = None
            /\ pc[p] \in {"handler", "done"}
            /\ Count(calls[p], IsResolverCall) = 0
            /\ Count(calls[p], IsExecutorCall) = 0
            /\ requests[p] = << >>
            /\ notifications[p] = << >>
            /\ published[p] = << >>
            /\ pc[p] = "done" =>
                  /\ response[p][1].statusCode = 400
                  /\ HasMessage(response[p][1], "Invalid alarm event")

C3_Witness ==
    \E p \in Procs :
        /\ pc[p] = "done"
        /\ InvalidEnvelope(event[p])
        /\ event[p].Records # None
        /\ event[p].Records[1] # << >>
        /\ event[p].Records[1][1].Sns[1] \notin NonJsonTexts
        /\ response[p][1].statusCode = 400

\* C4: the resolver's previous revision is r - 1 for a current revision
\* r > 1 and 1 for r = 1, and the rollback target is a revision of the same
\* family numbered at least 1 and at most r.
C4_FloorInvariant ==
    /\ \A r \in 1..(MaxRevision + 4) :
          previous_revision(r) = IF r > 1 THEN r - 1 ELSE 1
    /\ \A p \in Procs :
          service_info[p] # None =>
              \E r \in Revisions :
                  /\ service_info[p][1].current_task_def = TaskDefArn(family, r)
                  /\ \E t \in 1..r :
                        /\ t = (IF r > 1 THEN r - 1 ELSE 1)
                        /\ service_info[p][1].previous_task_def = TaskDefName(family, t)
    /\ rev >= 1

C4_Witness ==
    \E p \in Procs :
        /\ pc[p] = "done"
        /\ ExecutorSucceeded(p)
        /\ service_info[p][1].current_task_def = TaskDefArn(family, 1)
        /\ service_info[p][1].previous_task_def = TaskDefName(family, 1)
        /\ rev = 1


DecodeFailed(p) == event[p].serializable /\ alarm_data[p] = None

\* C5, as stated: every invocation has called send_notification at least
\* once when it returns.
C5_AlwaysNotifies ==
    \A p \in Procs : pc[p] = "done" => Len(notifications[p]) >= 1

\* C5, amended: every invocation has called send_notification at least once
\* when it returns, the outer catch-all included, except the invocation
\* whose event does not decode: that one answers 400 and notifies nobody.
C5_NotifiesUnlessInvalid ==
    \A p \in Procs :
        pc[p] = "done" =>
            IF DecodeFailed(p)
            THEN notifications[p] = << >> /\ response[p][1].statusCode = 400
            ELSE Len(notifications[p]) >= 1 /\ response[p][1].statusCode # 400

C5_Witness ==
    \E p \in Procs :
        /\ pc[p] = "done"
        /\ ~event[p].serializable
        /\ notifications[p] =
              <<[subject |-> "Rollback Critical Error",
                 message |-> critical_message(SerializeError)]>>
        /\ response[p][1].statusCode = 500

ResolverGaveUp(p) ==
    /\ pc[p] = "done"
    /\ Count(calls[p], IsResolverCall) > 0
    /\ service_info[p] = None

\* C6: when the resolver fails (no such service, or a platform query
\* raises), the handler calls send_notification exactly once, with "Rollback
\* Failed" and the generic message, answers 500, has run the resolver once
\* (one describe_services, at most one describe_task_definition), and never
\* calls the executor: no update_service is issued.
C6_ResolverFailure ==
    \A p \in Procs :
        ResolverGaveUp(p) =>
            /\ notifications[p] =
                  <<[subject |-> "Rollback Failed",
                     message |-> "Unable to retrieve service deployment information"]>>
            /\ response[p][1].statusCode = 500
            /\ HasMessage(response[p][1], "Failed to get service info")
            /\ Count(calls[p], IsResolverCall) = 1
            /\ Count(requests[p], IsDescribeServices) = 1
            /\ Count(requests[p], IsDescribeTaskDefinition) <= 1
            /\ Count(calls[p], IsExecutorCall) = 0
            /\ Count(requests[p], IsUpdate) = 0
            /\ rollback_result[p] = None

C6_Witness ==
    \E p \in Procs :
        /\ ResolverGaveUp(p)
        /\ ~serviceExists
        /\ Len(notifications[p]) = 1

\* C7: every started controller invocation and every started prober
\* invocation reaches its return with a response, whatever the external
\* calls did, and a response is an envelope {statusCode, body}.
C7_Terminates ==
    /\ \A p \in Procs : (pc[p] # "idle") ~> (pc[p] = "done" /\ response[p] # None)
    /\ (hc_pc # "idle") ~> (hc_pc = "done" /\ hc_response # None)
    /\ [](\A p \in Procs :
             pc[p] = "done" => /\ response[p] # None
                               /\ DOMAIN response[p][1] = {"statusCode", "body"})
    /\ [](hc_pc = "done" => /\ hc_response # None
                            /\ DOMAIN hc_response[1] = {"statusCode", "body"})

C7_Witness ==
    /\ hc_pc = "done"
    /\ hc_requests = <<"describe_services", "list_tasks", "describe_tasks">>
    /\ hc_tasks = << >>
    /\ metric_calls # << >>
    /\ metrics = << >>
    /\ hc_response[1].statusCode = 500

\* What the handler answers, as a function of the event and of what the
\* platform answered; the topic and the fate of the publish do not appear.
ExpectedReport(p) ==
    IF ~event[p].serializable
    THEN [statusCode |-> 500, message |-> critical_message(SerializeError)]
    ELSE IF parse_alarm_event(event[p]) = None
    THEN [statusCode |-> 400, message |-> "Invalid alarm event"]
    ELSE IF service_info[p] = None
    THEN [statusCode |-> 500, message |-> "Failed to get service info"]
    ELSE IF rollback_result[p][1].success
    THEN [statusCode |-> 200,
          message |-> "Rollback completed successfully. Reverted to task definition: "
                      \o service_info[p][1].previous_task_def]
    ELSE [statusCode |-> 500,
          message |-> "Rollback failed: " \o rollback_result[p][1].error]

\* C8: without a topic nothing is published; a failed publish is swallowed
\* (the call is made, nothing is published, the handler goes on); the
\* response's status and message are the same function of the event and of
\* the platform's answers whether the publish succeeded, failed or was not
\* attempted, and a successful rollback has set the service's revision.
C8_BestEffortNotification ==
    \A p \in Procs :
        /\ SNS_TOPIC_ARN = None => published[p] = << >>
        /\ Len(published[p]) <= Len(notifications[p])
        /\ Len(notifications[p]) <= 1
        /\ pc[p] = "done" =>
              /\ response[p][1].statusCode = ExpectedReport(p).statusCode
              /\ HasMessage(response[p][1], ExpectedReport(p).message)
              /\ ExecutorSucceeded(p) =>
                    service_info[p][1].previous_task_def = TaskDefName(family, rev)

C8_Witness ==
    \E p \in Procs :
        /\ pc[p] = "done"
        /\ SNS_TOPIC_ARN # None
        /\ ExecutorSucceeded(p)
        /\ Len(notifications[p]) = 1
        /\ published[p] = << >>
        /\ response[p][1].statusCode = 200

AllIdle == \A q \in Procs : pc[q] = "idle"

\* C9: with invocations one after another, each with a valid alarm and a
\* successful resolver and executor, the service is at revision
\* max(1, r0 - k) after k invocations; each such invocation reads the
\* revision the one before left, and issues one update_service; at revision
\* 1 it still issues the update, for revision 1, and answers 200.
C9_WalksBack ==
    /\ (AllIdle /\ succeeded = invocations) => rev = Max(1, r0 - invocations)
    /\ \A p \in Procs :
          ExecutorSucceeded(p) =>
              /\ Count(requests[p], IsDescribeServices) = 1
              /\ Count(requests[p], IsUpdate) = 1
              /\ \E c \in Revisions :
                    /\ service_info[p][1].current_task_def = TaskDefArn(family, c)
                    /\ rev = Max(1, c - 1)
                    /\ (succeeded = invocations - 1) => c = Max(1, r0 - (invocations - 1))
                    /\ c = 1 =>
                          /\ requests[p][Len(requests[p])]
                                = Request("update_service", TaskDefName(family, 1), TRUE)
                          /\ response[p][1].statusCode = 200

C9_Witness ==
    /\ AllIdle
    /\ invocations = 3
    /\ succeeded = 3
    /\ r0 = 2
    /\ rev = 1
    /\ deployments = 3

\* C10: with overlapping invocations, each reads the task definition the
\* service runs at that moment and issues at most one update_service, for
\* max(1, c - 1) of the revision c it read; the service runs the revision of
\* the update applied last, and nothing else changes it.
C10_LastWriteWins ==
    /\ [][\A p \in Procs :
             (service[p] = None /\ service'[p] # None) =>
                 service'[p][1].taskDefinition = TaskDefArn(family, rev)]_vars
    /\ [](\A p \in Procs :
             /\ Count(requests[p], IsUpdate) <= 1
             /\ service_info[p] # None =>
                   \E c \in held :
                      /\ service_info[p][1].current_task_def = TaskDefArn(family, c)
                      /\ service_info[p][1].previous_task_def
                            = TaskDefName(family, Max(1, c - 1)))
    /\ [](IF lastWrite = None
          THEN rev = r0
          ELSE /\ lastWrite[1].taskDefinition = TaskDefName(family, rev)
               /\ \E c \in held :
                     /\ lastWrite[1].current_task_def = TaskDefArn(family, c)
                     /\ lastWrite[1].taskDefinition = TaskDefName(family, Max(1, c - 1)))

\* Two invocations read revision 3 and 2, and the update of the first, for
\* revision 2, is applied after the update of the second, for revision 1.
C10_Witness ==
    /\ r0 = 3
    /\ held = {1, 2, 3}
    /\ rev = 2
    /\ lastWrite # None
    /\ lastWrite[1].current_task_def = TaskDefArn(family, 3)
    /\ \E p \in Procs : pc[p] # "idle"

(***************************************************************************)
(* Properties of the health prober.                                        *)
(***************************************************************************)
\* The URLs of a replica: one for each private address of its network
\* interfaces.
ReplicaUrls(task) ==
    {health_url(AttachmentAddresses(task.attachments, 1)[k]) :
        k \in 1..Len(AttachmentAddresses(task.attachments, 1))}

\* The health requests made to a replica in this cycle, and those among
\* them answered with HTTP 200.
RequestsTo(task) == {k \in 1..Len(probes) : probes[k].url \in ReplicaUrls(task)}
Answered200(task) == \E k \in RequestsTo(task) : probes[k].outcome = "200"
HealthyReplicas == {i \in 1..Len(hc_tasks) : Answered200(hc_tasks[i])}

\* The cycle reached the aggregate and reported it.
Reported == hc_pc = "done" /\ Len(metric_calls) = 4

StatusMetric(value) == MetricSample("HealthCheckStatus", <<value, 1>>)

\* C11, as stated: in a cycle over N >= 1 running replicas of which fewer
\* than N answered the health request with 200, the response is 500 and the
\* HealthCheckStatus metric is 0; and a healthy verdict (200, metric 1) is
\* given only with healthy_count = total_count and total_count > 0.
C11_FailClosed ==
    hc_pc = "done" =>
        /\ (Len(taskArns) >= 1 /\ Cardinality(HealthyReplicas) < Len(taskArns)) =>
              /\ hc_response[1].statusCode = 500
              /\ metric_calls # << >>
              /\ metric_calls[1] = StatusMetric(0)
        /\ (hc_response[1].statusCode = 200 \/ StatusMetric(1) \in
                {metric_calls[k] : k \in 1..Len(metric_calls)}) =>
              /\ healthy_count = Len(hc_tasks)
              /\ Len(hc_tasks) > 0

\* The prober reported on a list with no running replica: no task was
\* described and list_tasks was the last platform request.
NoneRunning ==
    /\ hc_pc = "done"
    /\ hc_requests = <<"describe_services", "list_tasks">>
    /\ taskArns = << >>

\* C12: when no replica is running the prober answers 500, healthy_count
\* and total_count are 0, publish_metric was called once, for
\* HealthCheckStatus 0, and in that invocation no task was described and no
\* health request was made.
C12_NoneRunning ==
    /\ NoneRunning =>
          /\ hc_response[1].statusCode = 500
          /\ healthy_count = 0
          /\ Len(hc_tasks) = 0
          /\ metric_calls = <<StatusMetric(0)>>
          /\ probes = << >>
          /\ hc_pos = 0
    /\ taskArns = << >> => (probes = << >> /\ hc_tasks = << >>)
    /\ taskArns = << >> =>
          \A k \in 1..Len(hc_requests) : hc_requests[k] # "describe_tasks"

C12_Witness ==
    /\ NoneRunning
    /\ HasMessage(hc_response[1], "No running tasks found")
    /\ metrics = <<StatusMetric(0)>>

\* The number of requests among the first n that were answered with 200.
Healthy200(n) == Cardinality({k \in 1..n : probes[k].outcome = "200"})

\* C13: a health request that raises, times out or is answered with
\* another status than 200 does not end the scan: the requests made are
\* always the first of the addresses of the described tasks, in order, the
\* aggregate is reported only after every address was requested, and
\* healthy_count is the number of requests answered with 200.
C13_FailureIsolation ==
    /\ Len(probes) = hc_pos
    /\ hc_pos <= Len(TaskAddresses(hc_tasks, 1))
    /\ \A k \in 1..Len(probes) :
          probes[k].url = health_url(TaskAddresses(hc_tasks, 1)[k])
    /\ healthy_count = Healthy200(Len(probes))
    /\ (\E k \in 1..Len(probes) : probes[k].outcome # "200") =>
          (hc_pc \in {"check_task_health", "done"}
           /\ (hc_pc = "done" => Reported))
    /\ Reported =>
          /\ Len(probes) = Len(TaskAddresses(hc_tasks, 1))
          /\ \A i \in 1..Len(hc_tasks) :
                \A u \in ReplicaUrls(hc_tasks[i]) :
                    \E k \in 1..Len(probes) : probes[k].url = u

\* The request to the first replica raised and the second replica was
\* requested all the same, and counted.
C13_Witness ==
    /\ Reported
    /\ Len(hc_tasks) = 2
    /\ Len(probes) = 2
    /\ probes[1].outcome = "raise"
    /\ probes[1].url \in ReplicaUrls(hc_tasks[1])
    /\ probes[2].outcome = "200"
    /\ probes[2].url \in ReplicaUrls(hc_tasks[2])
    /\ healthy_count = 1

\* C19, as stated: in each cycle one health request is made to each
\* described replica, healthy_count counts requests answered with 200 only,
\* a replica adds at most 1 to it, and 0 <= healthy_count <= total_count.
C19_OneProbePerReplica ==
    /\ healthy_count = Healthy200(Len(probes))
    /\ \A i \in 1..Len(hc_tasks) :
          /\ Cardinality(RequestsTo(hc_tasks[i])) <= 1
          /\ Reported => Cardinality(RequestsTo(hc_tasks[i])) = 1
    /\ healthy_count = Cardinality(HealthyReplicas)
    /\ 0 <= healthy_count
    /\ healthy_count <= Len(hc_tasks)

(***************************************************************************)
(* Properties of the controller's sequencing.                              *)
(***************************************************************************)
Stages == <<"parse_alarm_event", "get_service_deployment_info", "perform_rollback">>

IsSuccessNotice(n) == n.subject = "Rollback Successful"

\* The positions the handler may move to from each position.
Successors(at) ==
    CASE at = "idle" -> {"handler"}
      [] at = "handler" -> {"describe_services", "done"}
      [] at = "describe_services" -> {"describe_task_definition", "done"}
      [] at = "describe_task_definition" -> {"update_service", "done"}
      [] at = "update_service" -> {"done"}
      [] at = "done" -> {"idle"}

\* C14: in every invocation the stages are called in the order decoder,
\* resolver, executor, each at most once; the resolver only after the
\* decoder returned a record, update_service only after the resolver
\* returned its result, "Rollback Successful" only after update_service
\* succeeded; the handler only moves forward along the order or to its exit,
\* and after the exit no stage is called, no request issued and no
\* notification sent.
C14_StateOrder ==
    /\ [](\A p \in Procs :
             /\ Len(calls[p]) <= 3
             /\ calls[p] = SubSeq(Stages, 1, Len(calls[p]))
             /\ Count(calls[p], IsResolverCall) > 0 => alarm_data[p] # None
             /\ Count(requests[p], IsDescribeServices) > 0 => alarm_data[p] # None
             /\ Count(requests[p], IsDescribeServices) <= 1
             /\ Count(requests[p], IsDescribeTaskDefinition) <= 1
             /\ Count(requests[p], IsUpdate) <= 1
             /\ Count(requests[p], IsUpdate) > 0 =>
                   /\ service_info[p] # None
                   /\ Count(calls[p], IsExecutorCall) = 1
             /\ Count(calls[p], IsExecutorCall) > 0 => service_info[p] # None
             /\ Count(notifications[p], IsSuccessNotice) > 0 =>
                   /\ ExecutorSucceeded(p)
                   /\ Count(requests[p], IsUpdate) = 1
                   /\ pc[p] = "done"
             /\ (pc[p] = "done" /\ response[p][1].statusCode # 200) =>
                   /\ ~ExecutorSucceeded(p)
                   /\ Count(notifications[p], IsSuccessNotice) = 0
                   /\ alarm_data[p] = None => calls[p] \in {<< >>, SubSeq(Stages, 1, 1)}
                   /\ (alarm_data[p] # None /\ service_info[p] = None) =>
                         calls[p] = SubSeq(Stages, 1, 2))
    /\ [][\A p \in Procs :
             /\ pc'[p] # pc[p] => pc'[p] \in Successors(pc[p])
             /\ (pc[p] = "done" /\ pc'[p] = "done") =>
                   /\ calls'[p] = calls[p]
                   /\ requests'[p] = requests[p]
                   /\ notifications'[p] = notifications[p]
                   /\ response'[p] = response[p]]_vars

C14_Witness ==
    \E p \in Procs :
        /\ pc[p] = "done"
        /\ calls[p] = Stages
        /\ Len(requests[p]) = 3
        /\ ExecutorSucceeded(p)
        /\ Count(notifications[p], IsSuccessNotice) = 1

\* C15, as stated: every invocation has produced a rollback outcome when it
\* returns.
C15_OutcomeEveryInvocation ==
    \A p \in Procs : pc[p] = "done" => rollback_result[p] # None

\* C15, amended: an invocation produces at most one rollback outcome, and
\* exactly one if it reaches the executor (one call of perform_rollback); an
\* invocation that ends at the decoder, at the resolver or in the catch-all
\* produces none.  The outcome is either success with the target task
\* definition and the deployment id, or failure with the error text, and
\* nothing changes it until the handler has returned.
C15_OutcomeOncePerRollback ==
    /\ [](\A p \in Procs :
             /\ Count(calls[p], IsExecutorCall) <= 1
             /\ rollback_result[p] # None <=> Count(calls[p], IsExecutorCall) = 1
             /\ pc[p] = "done" => (rollback_result[p] # None <=> service_info[p] # None)
             /\ rollback_result[p] # None =>
                   LET result == rollback_result[p][1] IN
                   /\ pc[p] = "done"
                   /\ IF result.success
                      THEN /\ DOMAIN result = {"success", "previous_task_def", "deployment_id"}
                           /\ result.previous_task_def = service_info[p][1].previous_task_def
                           /\ result.deployment_id = DeploymentId(deployments)
                           /\ deployments >= 1
                      ELSE /\ DOMAIN result = {"success", "error"}
                           /\ result.error \in PlatformErrors)
    /\ [][\A p \in Procs :
             rollback_result[p] # None =>
                 \/ rollback_result'[p] = rollback_result[p]
                 \/ (pc[p] = "done" /\ pc'[p] = "idle" /\ rollback_result'[p] = None)]_vars

C15_Witness ==
    \E p \in Procs :
        /\ pc[p] = "done"
        /\ ExecutorSucceeded(p)
        /\ invocations = 2
        /\ rollback_result[p][1].deployment_id = DeploymentId(2)
        /\ rollback_result[p][1].previous_task_def = TaskDefName(family, 1)

IsCriticalNotice(n) == n.subject = "Rollback Critical Error"

\* An exception left the handler's try block: here, json.dumps(event) at
\* the head of the handler, the one statement of the pipeline that is not
\* inside a stage's own try.
Escaped(p) == pc[p] = "done" /\ ~event[p].serializable

\* C16: when an exception escapes the stages, the handler calls
\* send_notification exactly once, with "Rollback Critical Error" and the
\* text of the exception, and answers 500 with a message that contains that
\* text; nothing else is notified and no stage runs afterwards.  No other
\* invocation sends the critical notification.
C16_CriticalError ==
    \A p \in Procs :
        /\ Escaped(p) =>
              /\ notifications[p] =
                    <<[subject |-> "Rollback Critical Error",
                       message |-> "Critical error during rollback: " \o SerializeError]>>
              /\ Len(published[p]) <= 1
              /\ response[p][1].statusCode = 500
              /\ HasMessage(response[p][1],
                            "Critical error during rollback: " \o SerializeError)
              /\ Contains(response[p][1].body, SerializeError)
              /\ calls[p] = << >>
              /\ requests[p] = << >>
        /\ Count(notifications[p], IsCriticalNotice) > 0 => Escaped(p)

\* The critical notification was attempted and the publish failed; the
\* response is the same.
C16_Witness ==
    \E p \in Procs :
        /\ Escaped(p)
        /\ SNS_TOPIC_ARN # None
        /\ Count(notifications[p], IsCriticalNotice) = 1
        /\ published[p] = << >>
        /\ response[p][1].statusCode = 500

(***************************************************************************)
(* Properties of the decoder.                                              *)
(***************************************************************************)
\* The complete alarm payloads whose JSON text is the message of the
\* envelope's first record.
FirstPayloads(ev) ==
    IF ev.Records = None \/ ev.Records[1] = << >> THEN {}
    ELSE IF ev.Records[1][1].Sns = None THEN {}
    ELSE {o \in AlarmObjects : /\ json_dumps(o, AlarmKeys) = ev.Records[1][1].Sns[1]
                               /\ RequiredKeys \subseteq DOMAIN o}

Decoded(p) == Count(calls[p], LAMBDA c : c = "parse_alarm_event") > 0

\* C20: the decoder returns a record exactly when the envelope has a first
\* record whose message is the JSON text of an object with AlarmName,
\* NewStateValue, NewStateReason and StateChangeTime, and the record carries
\* these four values; records after the first do not change the result; in
\* every other case the result is None and the handler goes on to its 400
\* answer, never to the catch-all; and the decoding step changes nothing but
\* the handler's own locals.
C20_Decoder ==
    /\ [](\A p \in Procs :
             Decoded(p) =>
                 /\ alarm_data[p] # None <=> FirstPayloads(event[p]) # {}
                 /\ alarm_data[p] # None =>
                       \E o \in FirstPayloads(event[p]) :
                           alarm_data[p][1] = [alarm_name |-> o["AlarmName"],
                                               new_state  |-> o["NewStateValue"],
                                               reason     |-> o["NewStateReason"],
                                               timestamp  |-> o["StateChangeTime"]]
                 /\ \A ev \in Events :
                       (/\ ev.serializable
                        /\ ev.Records # None
                        /\ event[p].Records # None
                        /\ ev.Records[1] # << >>
                        /\ event[p].Records[1] # << >>
                        /\ ev.Records[1][1] = event[p].Records[1][1])
                       => parse_alarm_event(ev) = alarm_data[p]
                 /\ alarm_data[p] = None =>
                       /\ pc[p] = "done"
                       /\ response[p][1].statusCode = 400
                       /\ Count(notifications[p], IsCriticalNotice) = 0)
    /\ [][\A p \in Procs :
             (~Decoded(p) /\ Decoded(p)') =>
                 /\ UNCHANGED <<platformVars, SNS_TOPIC_ARN, event, requests,
                                notifications, published, proberVars>>
                 /\ \A q \in Procs \ {p} : alarm_data'[q] = alarm_data[q]]_vars

\* A valid first record followed by a record that is not JSON decodes.
C20_Witness ==
    \E p \in Procs :
        /\ Decoded(p)
        /\ event[p].Records # None
        /\ Len(event[p].Records[1]) = 2
        /\ event[p].Records[1][2].Sns[1] = "not json"
        /\ alarm_data[p] # None
        /\ alarm_data[p][1].new_state = "INSUFFICIENT_DATA"

(***************************************************************************)
(* Properties of the sample service.                                       *)
(***************************************************************************)
Served(route) == last_response # None /\ last_response[1].route = route
ServedStep == handled' = handled + 1
HealthStatus(st) == IF st.healthy THEN 200 ELSE 503

\* C17: GET /health answers 200 when the flag is true and 503 when it is
\* false; each POST /api/toggle-health negates the flag, so after an even
\* number of toggles the flag and the /health status are those of the start,
\* whatever the start; and no other request changes the flag.
C17_HealthFlag ==
    /\ [](/\ app_state.healthy \in BOOLEAN
          /\ Served("GET /health") => last_response[1].status = HealthStatus(app_state)
          /\ toggles % 2 = 0 =>
                /\ app_state.healthy = app_state0.healthy
                /\ health(app_state).status = HealthStatus(app_state0)
          /\ toggles % 2 = 1 =>
                /\ app_state.healthy = ~app_state0.healthy
                /\ health(app_state).status # HealthStatus(app_state0))
    /\ [][/\ toggles' = toggles + 1 => app_state'.healthy = ~app_state.healthy
          /\ app_state'.healthy # app_state.healthy =>
                /\ toggles' = toggles + 1
                /\ Served("POST /api/toggle-health")'
                /\ last_response'[1].status = 200]_vars

\* From an unhealthy start: two toggles, and /health answers 503 again.
C17_Witness ==
    /\ ~app_state0.healthy
    /\ toggles = 2
    /\ handled = 3
    /\ Served("GET /health")
    /\ last_response[1].status = 503

\* C18: request_count is its initial value plus the number of requests the
\* handlers served; a request to /api/simulate-error or for an unknown path
\* adds exactly one to request_count and to error_count; a request answered
\* with success leaves error_count as it was; and error_count never exceeds
\* request_count.
C18_Counters ==
    /\ [](/\ app_state.request_count = app_state0.request_count + handled
          /\ app_state.error_count >= app_state0.error_count
          /\ app_state.error_count - app_state0.error_count <= handled
          /\ app_state.error_count <= app_state.request_count)
    /\ [][/\ ServedStep =>
                /\ app_state'.request_count = app_state.request_count + 1
                /\ app_state'.error_count \in {app_state.error_count,
                                               app_state.error_count + 1}
                /\ (Served("GET /api/simulate-error")'
                    \/ Served("GET /nonexistent-endpoint")') =>
                       app_state'.error_count = app_state.error_count + 1
                /\ last_response'[1].status \in {200, 201} =>
                       app_state'.error_count = app_state.error_count
          /\ ~ServedStep => app_state' = app_state]_vars

C18_Witness ==
    /\ handled = 4
    /\ app_state0.request_count = 2
    /\ app_state.request_count = 6
    /\ app_state.error_count = app_state0.error_count + 2
    /\ Served("GET /api/simulate-error")

(***************************************************************************)
(* Properties of the rollback's effect on the platform.                    *)
(***************************************************************************)
\* The step in which invocation p sets its response.
Answers(p) == pc[p] # "done" /\ pc'[p] = "done"

\* C21, as stated: the step of an invocation that ends in a 400 or 500
\* response leaves the service's revision as it was, and the revision
\* changes only in the step of an invocation that answers 200.
C21_FailureLeavesRevision ==
    [][/\ \A p \in Procs :
             (Answers(p) /\ response'[p][1].statusCode \in {400, 500}) => rev' = rev
       /\ rev' # rev =>
             \E p \in Procs : Answers(p) /\ response'[p][1].statusCode = 200]_vars

\* C22, as stated: no step raises the service's revision.
C22_NeverRaises == [][rev' <= rev]_vars

\* The revision invocation p read from the platform.
ReadBy(p) == CHOOSE c \in Revisions :
                service_info[p][1].current_task_def = TaskDefArn(family, c)

\* C22, amended: every applied update is the update of an invocation at
\* update_service and sets the revision to max(1, c - 1) of the revision c
\* that invocation read, which is at most c and below c when c > 1; an
\* update whose invocation read the revision still current does not raise
\* it; and the revision never exceeds the initial one.  (An update from a
\* stale read may raise the revision above its value just before.)
C22_NeverAboveRead ==
    /\ [][(rev' # rev \/ deployments' # deployments) =>
             \E p \in Procs :
                 /\ pc[p] = "update_service"
                 /\ pc'[p] = "done"
                 /\ service_info[p] # None
                 /\ rev' = Max(1, ReadBy(p) - 1)
                 /\ rev' <= ReadBy(p)
                 /\ ReadBy(p) > 1 => rev' < ReadBy(p)
                 /\ ReadBy(p) = rev => rev' <= rev]_vars
    /\ [](rev <= r0 /\ rev >= 1)
    /\ [](\A c \in held : c <= r0)

\* Three updates were applied, for revisions 2, 1 and 2: the last, from an
\* invocation that had read revision 3, raised the revision from 1 to 2.
C22_Witness ==
    /\ r0 = 3
    /\ deployments = 3
    /\ held = {1, 2, 3}
    /\ rev = 2
    /\ lastWrite # None
    /\ lastWrite[1].taskDefinition = TaskDefName(family, 2)

(***************************************************************************)
(* Properties of what is notified and published.                           *)
(***************************************************************************)
Subjects(p) == {notifications[p][k].subject : k \in 1..Len(notifications[p])}

\* C23: an invocation calls send_notification at most once; when it has
\* answered, "Rollback Successful" was sent exactly if the status is 200,
\* "Rollback Failed" and "Rollback Critical Error" only with status 500,
\* nothing with status 400, and the status is 200, 400 or 500.
C23_SubjectMatchesStatus ==
    \A p \in Procs :
        /\ Len(notifications[p]) <= 1
        /\ Subjects(p) \subseteq {"Rollback Successful", "Rollback Failed",
                                  "Rollback Critical Error"}
        /\ notifications[p] # << >> => pc[p] = "done"
        /\ pc[p] = "done" =>
              LET status == response[p][1].statusCode IN
              /\ status \in {200, 400, 500}
              /\ "Rollback Successful" \in Subjects(p) <=> status = 200
              /\ "Rollback Failed" \in Subjects(p) => status = 500
              /\ "Rollback Critical Error" \in Subjects(p) => status = 500
              /\ status = 400 => notifications[p] = << >>
              /\ status = 500 => Len(notifications[p]) = 1

\* An update the platform rejected: "Rollback Failed" and 500.
C23_Witness ==
    \E p \in Procs :
        /\ pc[p] = "done"
        /\ ExecutorFailed(p)
        /\ lastWrite = None
        /\ Subjects(p) = {"Rollback Failed"}
        /\ response[p][1].statusCode = 500

MetricNames == [k \in 1..Len(metric_calls) |-> metric_calls[k].MetricName]
IsStatusMetric(m) == m.MetricName = "HealthCheckStatus"

\* The prober answered after describing the tasks and scanning them.
NormalPath ==
    /\ hc_pc = "done"
    /\ hc_requests = <<"describe_services", "list_tasks", "describe_tasks">>
    /\ hc_tasks # << >>

\* metrics is metric_calls with some of its samples left out.
RECURSIVE IsSubsequence(_, _)
IsSubsequence(a, b) ==
    IF a = << >> THEN TRUE
    ELSE IF b = << >> THEN FALSE
    ELSE IF a[1] = b[1] THEN IsSubsequence(Tail(a), Tail(b))
    ELSE IsSubsequence(a, Tail(b))

\* C24: a prober invocation calls publish_metric for HealthCheckStatus at
\* most once; it does so with value 1 exactly if it answers 200; on the
\* normal path it publishes HealthCheckStatus, ResponseTime, HealthyTasks and
\* TotalTasks, in that order, before it answers; and put_metric_data
\* refusing any of them is swallowed: the status is the verdict's whatever
\* was accepted.
C24_MetricsMatchStatus ==
    /\ Count(metric_calls, IsStatusMetric) <= 1
    /\ IsSubsequence(metrics, metric_calls)
    /\ metric_calls # << >> => hc_pc = "done"
    /\ hc_pc = "done" =>
          /\ hc_response[1].statusCode \in {200, 500}
          /\ (\E k \in 1..Len(metric_calls) : metric_calls[k] = StatusMetric(1))
                <=> hc_response[1].statusCode = 200
    /\ NormalPath =>
          /\ MetricNames = <<"HealthCheckStatus", "ResponseTime", "HealthyTasks", "TotalTasks">>
          /\ metric_calls[3].Value = <<healthy_count, 1>>
          /\ metric_calls[4].Value = <<Len(hc_tasks), 1>>
          /\ hc_response[1].statusCode =
                (IF healthy_count = Len(hc_tasks) THEN 200 ELSE 500)
    /\ (hc_pc = "done" /\ ~NormalPath) => Len(metric_calls) <= 1

\* A healthy verdict none of whose four metrics was accepted: still 200.
C24_Witness ==
    /\ NormalPath
    /\ Len(metric_calls) = 4
    /\ metrics = << >>
    /\ healthy_count = 2
    /\ hc_response[1].statusCode = 200

\* C25, as stated: a prober invocation that answers 500 has called
\* publish_metric for HealthCheckStatus with value 0.
C25_UnhealthyPublishesZero ==
    (hc_pc = "done" /\ hc_response[1].statusCode = 500) =>
        \E k \in 1..Len(metric_calls) : metric_calls[k] = StatusMetric(0)

(***************************************************************************)
(* The alarm's content and the decision.                                   *)
(***************************************************************************)
\* The platform requests of an invocation, as a function of what the
\* platform answered.
ExpectedRequests(p) ==
    <<Request("describe_services", "", FALSE)>>
    \o (IF service[p] = None THEN << >>
        ELSE <<Request("describe_task_definition", service[p][1].taskDefinition, FALSE)>>)
    \o (IF service_info[p] = None THEN << >>
        ELSE <<Request("update_service", service_info[p][1].previous_task_def, TRUE)>>)

ExpectedSubject(p) ==
    IF service_info[p] = None THEN "Rollback Failed"
    ELSE IF rollback_result[p][1].success THEN "Rollback Successful"
    ELSE "Rollback Failed"

\* C26: for every decoded alarm, whatever its name, new state, reason and
\* time, the handler goes on to the resolver, and its requests, the update
\* it issues, the status and message of its response and the subject it
\* notifies are functions of the platform's answers alone: two decoded
\* alarms given the same answers give the same requests, response and
\* subject.
C26_ContentBlind ==
    \A p \in Procs :
        alarm_data[p] # None =>
            /\ pc[p] \in {"describe_services", "describe_task_definition",
                          "update_service", "done"}
            /\ requests[p] = SubSeq(ExpectedRequests(p), 1, Len(requests[p]))
            /\ pc[p] = "done" =>
                  /\ requests[p] = ExpectedRequests(p)
                  /\ response[p][1].statusCode = ExpectedReport(p).statusCode
                  /\ HasMessage(response[p][1], ExpectedReport(p).message)
                  /\ Subjects(p) = {ExpectedSubject(p)}
                  /\ service_info[p] # None => Count(requests[p], IsUpdate) = 1

\* An alarm that went back to OK rolls the service back all the same.
C26_Witness ==
    \E p \in Procs :
        /\ pc[p] = "done"
        /\ alarm_data[p] # None
        /\ alarm_data[p][1].alarm_name = "HighLatency"
        /\ alarm_data[p][1].new_state = "OK"
        /\ alarm_data[p][1].reason = "recovered"
        /\ ExecutorSucceeded(p)
        /\ response[p][1].statusCode = 200
        /\ rev < r0


====
